---- MODULE Spec2Model ----
(***************************************************************************)
(* Model of adelra/hoisin: the secret validator action.                    *)
(*   src/src/validateSecrets.ts  validateSecret (pattern compile and test)  *)
(*   src/src/index.ts            run (configuration checks and rule loop)   *)
(* Strings that the code compiles or matches are sequences of one-character *)
(* tokens, so that compiling and matching are computed, not assumed.        *)
(* Messages are tuples of the literal pieces of the source's template       *)
(* strings; the emoji prefixes are written [ok], [x] and [!].               *)
(***************************************************************************)
EXTENDS Integers, Sequences, FiniteSets, TLC

\* ---------------------------------------------------------------- bounds
MaxValLen == 2
MaxPatLen == 2
MaxEnvLen == 1
MaxRules == 2
MaxArgs == 6
MaxChecks == 2

\* ------------------------------------------------------------- alphabets
ValueChars == {"a", "b"}
EnvChars == {"a"}
PatternTokens == {"^", "$", ".", "a", "b", "+", "*", "("}
SecretNames == {"A", "B", "C"}
Whitespace == {"\n", " "}

RECURSIVE SeqsUpTo(_, _)
SeqsUpTo(S, n) ==
  IF n = 0 THEN {<<>>}
  ELSE LET shorter == SeqsUpTo(S, n - 1)
       IN shorter \cup {Append(s, c) : s \in {t \in shorter : Len(t) = n - 1}, c \in S}

\* --------------------------------------------- the host regular expressions
\* What String(x) of a table produced by a parser that builds ordinary
\* objects gives; as a pattern it is one character class.
ObjectObject == "[object Object]"
ObjectObjectChars == {"o", "b", "j", "e", "c", "t", " ", "O"}

Quantifiers == {"+", "*"}

IsAssertion(item) == item.kind \in {"bol", "eol"}

ItemOf(tok) ==
  IF tok = "^" THEN [kind |-> "bol", q |-> "1", set |-> {}]
  ELSE IF tok = "$" THEN [kind |-> "eol", q |-> "1", set |-> {}]
  ELSE IF tok = "." THEN [kind |-> "any", q |-> "1", set |-> {}]
  ELSE IF tok = ObjectObject THEN [kind |-> "class", q |-> "1", set |-> ObjectObjectChars]
  ELSE [kind |-> "class", q |-> "1", set |-> {tok}]

\* new RegExp(pattern): the compiled items, or a SyntaxError.
\* "(" never finds its ")" in this alphabet (Unterminated group); a
\* quantifier needs an unquantified atom before it (Nothing to repeat).
RECURSIVE ParseFrom(_, _, _)
ParseFrom(pattern, i, items) ==
  IF i > Len(pattern) THEN [ok |-> TRUE, items |-> items, message |-> ""]
  ELSE LET tok == pattern[i] IN
    IF tok = "(" THEN [ok |-> FALSE, items |-> <<>>, message |-> "Unterminated group"]
    ELSE IF tok \in Quantifiers THEN
      IF \/ Len(items) = 0
         \/ IsAssertion(items[Len(items)])
         \/ items[Len(items)].q # "1"
      THEN [ok |-> FALSE, items |-> <<>>, message |-> "Nothing to repeat"]
      ELSE ParseFrom(pattern, i + 1,
                     [items EXCEPT ![Len(items)] = [@ EXCEPT !.q = tok]])
    ELSE ParseFrom(pattern, i + 1, Append(items, ItemOf(tok)))

NewRegExp(pattern) == ParseFrom(pattern, 1, <<>>)

CharMatches(item, c) ==
  \/ item.kind = "any"
  \/ item.kind = "class" /\ c \in item.set

\* The input positions (0..Len(s)) at which a match of items[i..] that
\* starts at position j can end.
RECURSIVE MatchEnds(_, _, _, _, _)
MatchEnds(items, i, s, j, taken) ==
  IF i > Len(items) THEN {j}
  ELSE LET item == items[i]
           here == j < Len(s) /\ CharMatches(item, s[j + 1])
       IN
    IF item.kind = "bol" THEN (IF j = 0 THEN MatchEnds(items, i + 1, s, j, FALSE) ELSE {})
    ELSE IF item.kind = "eol" THEN (IF j = Len(s) THEN MatchEnds(items, i + 1, s, j, FALSE) ELSE {})
    ELSE IF item.q = "1" THEN (IF here THEN MatchEnds(items, i + 1, s, j + 1, FALSE) ELSE {})
    ELSE \* "*" may stop at once; "+" only after one repetition was taken
      (IF item.q = "*" \/ taken THEN MatchEnds(items, i + 1, s, j, FALSE) ELSE {})
      \cup (IF here THEN MatchEnds(items, i, s, j + 1, TRUE) ELSE {})

\* regex.test(value): the pattern is not anchored implicitly.
RegExpTest(regex, value) ==
  \E j \in 0..Len(value) : MatchEnds(regex.items, 1, value, j, FALSE) # {}

\* ---------------------------------------------------------- validateSecret
\* The text of a pattern, as a template string interpolates it.
RECURSIVE PatternText(_)
PatternText(pattern) ==
  IF pattern = <<>> THEN "" ELSE Head(pattern) \o PatternText(Tail(pattern))

MsgValid(name) == <<"[ok] Secret '", name, "' is valid.">>
MsgNoMatch(name, pattern) ==
  <<"[x] Secret '", name, "' does not match the required pattern: ", PatternText(pattern)>>
MsgError(name, message) == <<"[!] Error validating secret '", name, "': ", message>>

\* The handler returning false without a line
CatchSilent(name, message) == [result |-> FALSE, logged |-> <<>>, threw |-> FALSE]

\* validateSecrets.ts 18-21: the handler of validateSecret's try block
CatchHandler(name, message) ==
  [result |-> FALSE, logged |-> <<MsgError(name, message)>>, threw |-> FALSE]

\* validateSecret with the negation of the test dropped
validateSecretInverted(name, value, pattern) ==
  LET regex == NewRegExp(pattern) IN
  IF ~regex.ok
  THEN CatchHandler(name, regex.message)
  ELSE IF RegExpTest(regex, value)
       THEN [result |-> FALSE, logged |-> <<MsgNoMatch(name, pattern)>>, threw |-> FALSE]
       ELSE [result |-> TRUE, logged |-> <<MsgValid(name)>>, threw |-> FALSE]

\* validateSecrets.ts 8-22: the returned boolean, the lines given to
\* console.log, and whether an error left the function (the try block
\* covers the whole body, and its handler only logs and returns).
validateSecret(name, value, pattern) ==
  LET regex == NewRegExp(pattern) IN
  IF ~regex.ok
  THEN CatchHandler(name, regex.message)
  ELSE IF ~RegExpTest(regex, value)
       THEN [result |-> FALSE, logged |-> <<MsgNoMatch(name, pattern)>>, threw |-> FALSE]
       ELSE [result |-> TRUE, logged |-> <<MsgValid(name)>>, threw |-> FALSE]

\* ------------------------------------------------------------ JS values
\* A value of the parsed document: kind, scalar text v, table entries.
JSUndefined == [kind |-> "undefined", v |-> <<>>, entries |-> <<>>]
JSBool(b) == [kind |-> "boolean", v |-> <<IF b THEN "true" ELSE "false">>, entries |-> <<>>]
JSNumber(n) == [kind |-> "number", v |-> <<n>>, entries |-> <<>>]
JSString(s) == [kind |-> "string", v |-> s, entries |-> <<>>]
JSTable(es) == [kind |-> "table", v |-> <<>>, entries |-> es]

\* !x with an empty table counted as false
FalsyWhenEmpty(x) ==
  \/ x.kind \in {"undefined"}
  \/ x.kind = "boolean" /\ x.v = <<"false">>
  \/ x.kind = "number" /\ x.v = <<"0">>
  \/ x.kind = "string" /\ x.v = <<>>
  \/ x.kind = "table" /\ x.entries = <<>>

\* !x
Falsy(x) ==
  \/ x.kind = "undefined"
  \/ x.kind = "boolean" /\ x.v = <<"false">>
  \/ x.kind = "number" /\ x.v = <<"0">>
  \/ x.kind = "string" /\ x.v = <<>>

IndexKeys == <<"0", "1", "2", "3">>

\* Object.entries(x): the own enumerable string-keyed properties, in
\* insertion order for a table, index by index for a string, none for a
\* number or a boolean.
ObjectEntries(x) ==
  IF x.kind = "table" THEN x.entries
  ELSE IF x.kind = "string"
       THEN [i \in 1..Len(x.v) |-> [name |-> IndexKeys[i], regex |-> JSString(<<x.v[i]>>)]]
       ELSE <<>>

\* String.prototype.trim on a message kept as a tuple of pieces.
RECURSIVE TrimLeft(_)
TrimLeft(s) == IF s # <<>> /\ Head(s) \in Whitespace THEN TrimLeft(Tail(s)) ELSE s
RECURSIVE TrimRight(_)
TrimRight(s) ==
  IF s # <<>> /\ s[Len(s)] \in Whitespace THEN TrimRight(SubSeq(s, 1, Len(s) - 1)) ELSE s
Trim(s) == TrimRight(TrimLeft(s))

\* ------------------------------------------------------------- the inputs
ConfigPath == "config.toml"
ParserMessages == {"Expected '=' but found end of input", "Unexpected character"}
ReadMessages == {"EISDIR: illegal operation on a directory, read"}
NoEntryMessage == "ENOENT: no such file or directory, open"
InputRequiredMessage == "Input required and not supplied: config-file"

\* The pattern values a table of the configuration may hold: a pattern
\* that the non-empty values match, one that they do not match, a
\* malformed pattern, a nested table.
RunPatternValues ==
  {JSString(<<"^", "a", "+", "$">>), JSString(<<"b">>), JSString(<<"(", "a">>),
   JSTable(<<>>)}

IsInjective(f) == \A i, j \in DOMAIN f : f[i] = f[j] => i = j

RuleNames(es) == [i \in DOMAIN es |-> es[i].name]

\* Tables of at most MaxRules keys, each key once.
SecretsTables ==
  {es \in UNION {[1..n -> [name : SecretNames, regex : RunPatternValues]] : n \in 0..MaxRules} :
     IsInjective(RuleNames(es))}

SecretsValues ==
  {JSUndefined, JSBool(FALSE), JSBool(TRUE), JSNumber("0"), JSNumber("5"),
   JSString(<<>>), JSString(<<"a">>)}
  \cup {JSTable(es) : es \in SecretsTables}

NoDoc == [secrets |-> JSUndefined, other |-> JSUndefined]

ConfigFiles ==
  {[st |-> "noinput", msg |-> "", doc |-> NoDoc],
   [st |-> "notfound", msg |-> NoEntryMessage, doc |-> NoDoc]}
  \cup {[st |-> "unreadable", msg |-> m, doc |-> NoDoc] : m \in ReadMessages}
  \cup {[st |-> "syntax", msg |-> m, doc |-> NoDoc] : m \in ParserMessages}
  \cup {[st |-> "ok", msg |-> "", doc |-> [secrets |-> x, other |-> JSUndefined]] : x \in SecretsValues}

\* What else the document may hold at top level: nothing, or one more
\* table with a key named like a secret.
OtherTables ==
  {JSUndefined, JSTable(<<[name |-> "A", regex |-> JSString(<<"b">>)]>>)}

\* The documents of a file that parses, with and without another table
IsolationFiles ==
  {[st |-> "ok", msg |-> "", doc |-> [secrets |-> x, other |-> o]] :
     x \in SecretsValues, o \in OtherTables}

\* process.env: some of the names are set, each to a string.
Environments ==
  UNION {[D -> SeqsUpTo(EnvChars, MaxEnvLen)] : D \in SUBSET SecretNames}

Implementations == {"real", "mock"}
MockOutcomes == {"true", "false", "threw"}

NoInput == [name |-> "", value |-> <<>>, pattern |-> <<>>]

\* ---------------------------------------------------------------- state
VARIABLES
  file,         \* what the config-file input names: its state and parsed document
  env,          \* process.env
  impl,         \* validateSecret as imported by run: the real one or a test double
  pc,           \* where the invocation is
  entries,      \* Object.entries(secretsConfig.secrets)
  idx,          \* the next entry of the for loop
  hasFailures,
  calls,        \* the calls made on the host platform (core.*), in order
  lookups,      \* the names read from process.env, in order
  vsCalls,      \* the validateSecret calls, in order, with their outcome
  consoleLog,   \* the function console.log is bound to
  stdout,       \* the lines the console.log installed before the call received
  escaped,      \* the error run() rejected with, "none" if it did not
  input,        \* the arguments of a direct validateSecret call
  argv,         \* process.argv.slice(2) of the command-line entry point
  stderr,       \* the lines given to console.error
  exitCode,     \* the code given to process.exit, NotExited before
  checkFiles,   \* the checks files of the environment check: bundled and given
  envChecks,    \* the envChecks argument of validateEnv
  runs,         \* concurrent invocations of run(): the locals of each
  running       \* the invocation that holds the thread, "none" between tasks

vars == <<file, env, impl, pc, entries, idx, hasFailures, calls, lookups, vsCalls,
          consoleLog, stdout, escaped, input, argv, stderr, exitCode,
          checkFiles, envChecks, runs, running>>

cliVars == <<argv, stderr, exitCode>>

envVars == <<checkFiles, envChecks>>

concVars == <<runs, running>>

\* Outside the environment check there are no checks files
NoCheckFiles == [bundled |-> [st |-> "none", lines |-> <<>>],
                 given |-> [st |-> "none", lines |-> <<>>]]

NotExited == -1

Call(fn, msg) == [fn |-> fn, msg |-> msg]

MsgLooking == <<"Looking for TOML configuration at: ", ConfigPath>>
MsgNotFound == <<"TOML file not found at path: ", ConfigPath>>
MsgMissingSection == <<"Invalid configuration file format. Missing \"secrets\" section.">>
MsgFound(n) == <<"Found ", ToString(n), " secrets to validate">>
MsgNotInEnv(name) == <<"Secret \"", name, "\" not found in environment.">>
MsgValidating(name, text) == <<"Validating secret: ", name, " with pattern: ", text>>
MsgFailedFor(name) == <<"Validation failed for secret: ", name>>
MsgOneOrMore == <<"One or more secrets failed validation">>
MsgAllValid == <<"All secrets validated successfully">>
MsgFatal(message) == <<"Secret validation failed: ", message>>

Init ==
  /\ file \in ConfigFiles
  /\ env \in Environments
  /\ impl \in Implementations
  /\ pc = "start"
  /\ entries = <<>>
  /\ idx = 1
  /\ hasFailures = FALSE
  /\ calls = <<>>
  /\ lookups = <<>>
  /\ vsCalls = <<>>
  /\ consoleLog = <<"original">>
  /\ stdout = <<>>
  /\ escaped = "none"
  /\ input = NoInput
  /\ argv = <<>>
  /\ stderr = <<>>
  /\ exitCode = NotExited
  /\ checkFiles = NoCheckFiles
  /\ runs = <<>>
  /\ running = "none"
  /\ envChecks = <<>>

\* The outer catch with its handler removed: the error leaves run()
OuterCatchRethrows(log, message) == [calls |-> log, escaped |-> message]

\* index.ts 80-82: the outer catch of run()
OuterCatch(log, message) ==
  [calls |-> Append(log, Call("setFailed", MsgFatal(message))), escaped |-> "none"]

\* existsSync answering true for every path
ExistsAlways(f) == TRUE

\* index.ts 19: existsSync(tomlFilePath)
ExistsSync(f) == f.st # "notfound"

\* The not-found branch returning without a signal
NotFoundSilent(log) == Append(log, Call("debug", MsgLooking))

\* index.ts 17-22: the path is logged, the file is not there: setFailed, return
NotFoundBranch(log) ==
  log \o <<Call("debug", MsgLooking), Call("setFailed", MsgNotFound)>>

\* index.ts 12-24: from the input to the await of readFile
RunStart ==
  /\ pc = "start"
  /\ UNCHANGED cliVars
  /\ UNCHANGED envVars
  /\ UNCHANGED concVars
  /\ UNCHANGED <<file, env, impl, entries, idx, hasFailures, lookups, vsCalls,
                 consoleLog, stdout, input>>
  /\ IF file.st = "noinput"
     THEN LET c == OuterCatch(calls, InputRequiredMessage) IN
          /\ calls' = c.calls
          /\ escaped' = c.escaped
          /\ pc' = "done"
     ELSE IF ~ExistsSync(file)
     THEN /\ calls' = NotFoundBranch(calls)
          /\ escaped' = escaped
          /\ pc' = "done"
     ELSE /\ calls' = Append(calls, Call("debug", MsgLooking))
          /\ escaped' = escaped
          /\ pc' = "reading"

\* The rules taken from every table of the document
SecretsOfAllTables(doc) ==
  IF doc.secrets.kind = "table" /\ doc.other.kind = "table"
  THEN JSTable(doc.secrets.entries \o doc.other.entries)
  ELSE doc.secrets

\* index.ts 27, 32, 35: secretsConfig.secrets
SecretsOf(doc) == doc.secrets

\* The shape check left out
SectionMissingNever(doc) == FALSE

\* index.ts 27: !secretsConfig || !secretsConfig.secrets (the parser
\* always returns an object)
SectionMissing(doc) == Falsy(SecretsOf(doc))

\* index.ts 24-33: the file is read and parsed, the shape is checked
RunParse ==
  /\ pc = "reading"
  /\ UNCHANGED cliVars
  /\ UNCHANGED envVars
  /\ UNCHANGED concVars
  /\ UNCHANGED <<file, env, impl, idx, lookups, vsCalls, consoleLog, stdout, input>>
  /\ IF file.st \in {"notfound", "unreadable", "syntax"}
     THEN \* readFile rejects, or TOML.parse throws
          LET c == OuterCatch(calls, file.msg) IN
          /\ calls' = c.calls
          /\ escaped' = c.escaped
          /\ pc' = "done"
          /\ UNCHANGED <<entries, hasFailures>>
     ELSE IF SectionMissing(file.doc)
     THEN /\ calls' = Append(calls, Call("setFailed", MsgMissingSection))
          /\ pc' = "done"
          /\ UNCHANGED <<entries, hasFailures, escaped>>
     ELSE /\ entries' = ObjectEntries(SecretsOf(file.doc))
          /\ calls' = Append(calls, Call("info", MsgFound(Len(entries'))))
          /\ hasFailures' = FALSE
          /\ pc' = "loop"
          /\ UNCHANGED escaped

\* process.env[name]
EnvGet(name) ==
  IF name \in DOMAIN env THEN [defined |-> TRUE, v |-> env[name]]
  ELSE [defined |-> FALSE, v |-> <<>>]

\* ! of a string answering false for every string
StringNotNever(s) == FALSE

\* index.ts 37, validateSecrets.ts 46: ! of a string is true of the empty one
StringNot(s) == s = <<>>

\* The missing-value test written as secretValue === undefined
ValueMissingIfUndefined(got) == ~got.defined

\* index.ts 37: !secretValue
ValueMissing(got) == ~got.defined \/ StringNot(got.v)

\* Line 40 written as break
BreakAfterMissing(i, n) == n + 1

\* index.ts 40: continue
ContinueAfterMissing(i, n) == i + 1

\* The missing-value branch reporting with the wording of the mismatch line
MissingBranchIsMissing(log, name) ==
  [calls |-> Append(log, Call("info", <<"[x] Secret '", name, "' is missing.">>)),
   hasFailures |-> TRUE]

\* index.ts 38-39: the missing-value branch
MissingBranch(log, name) ==
  [calls |-> Append(log, Call("warning", MsgNotInEnv(name))), hasFailures |-> TRUE]

\* The per-rule catch with an empty handler
InnerCatchSilent(log, name, hf) == [calls |-> log, hasFailures |-> hf]

\* index.ts 68-72: the per-rule catch
InnerCatch(log, name, hf) ==
  [calls |-> Append(log, Call("error", MsgFailedFor(name))), hasFailures |-> TRUE]

\* A valid rule clearing the failures seen so far
FailuresResetByValid(hf) == FALSE

\* index.ts 64: a valid rule skips the block and leaves hasFailures as it is
FailuresAfterValid(hf) == hf

\* The result check with the test of isValid dropped
AfterValidateNoCheck(log, name, isValid, hf) == [calls |-> log, hasFailures |-> hf]

\* index.ts 64-67: if (!isValid)
AfterValidate(log, name, isValid, hf) ==
  IF ~isValid
  THEN [calls |-> Append(log, Call("error", MsgFailedFor(name))), hasFailures |-> TRUE]
  ELSE [calls |-> log, hasFailures |-> FailuresAfterValid(hf)]

\* How a value of the document turns into a string (template literal,
\* new RegExp): a string is itself; a table either has no conversion
\* (an object without prototype: TypeError) or is "[object Object]".
Coercions == {"throws", "string"}
Coerce(x, coercion) ==
  IF x.kind = "string" THEN [ok |-> TRUE, tokens |-> x.v]
  ELSE IF coercion = "string" THEN [ok |-> TRUE, tokens |-> <<ObjectObject>>]
  ELSE [ok |-> FALSE, tokens |-> <<>>]

\* index.ts 51-53: what the capturing console.log accumulates
RECURSIVE Captured(_)
Captured(lines) ==
  IF lines = <<>> THEN <<>> ELSE Head(lines) \o <<"\n">> \o Captured(Tail(lines))

CaptureOf(i) == <<"capture", ToString(i)>>

\* Lines 51-53 left out: console.log stays what it was
InstallNothing(conLog, i) == conLog

\* index.ts 51-53: console.log = (message) => { validationOutput += ... }
InstallCapture(conLog, i) == CaptureOf(i)

\* index.ts 43-72: the try block of one rule whose value is present.
\* outcome is what a test double does; coercion is how a table converts.
ValidateBranch(name, value, regex, outcome, coercion) ==
  LET text == Coerce(regex, coercion)
      log1 == Append(calls, Call("debug", MsgValidating(name, PatternText(text.tokens))))
      \* lines 48-72, given what the call of line 55 did
      After(r) ==
        LET sink == InstallCapture(consoleLog, idx)
            validationOutput == IF sink = CaptureOf(idx) THEN Captured(r.logged) ELSE <<>>
            out == IF sink = <<"original">> THEN stdout \o r.logged ELSE stdout
            log2 == IF validationOutput # <<>>
                    THEN Append(log1, Call("info", Trim(validationOutput)))
                    ELSE log1
            a == AfterValidate(log2, name, r.result, hasFailures)
            c == InnerCatch(log1, name, hasFailures)
        IN
        IF r.threw
        THEN \* line 55 throws: line 58 is skipped
             [calls |-> c.calls, hasFailures |-> c.hasFailures,
              consoleLog |-> sink, stdout |-> out,
              vsCalls |-> Append(vsCalls, [name |-> name, value |-> value,
                                           pattern |-> text.tokens, outcome |-> "threw"])]
        ELSE
        [calls |-> a.calls, hasFailures |-> a.hasFailures,
         consoleLog |-> consoleLog, stdout |-> out,
         vsCalls |-> Append(vsCalls, [name |-> name, value |-> value,
                                      pattern |-> text.tokens,
                                      outcome |-> IF r.result THEN "true" ELSE "false"])]
  IN
  IF ~text.ok
  THEN \* line 45 throws before console.log is touched
       LET c == InnerCatch(calls, name, hasFailures) IN
       [calls |-> c.calls, hasFailures |-> c.hasFailures,
        consoleLog |-> consoleLog, vsCalls |-> vsCalls, stdout |-> stdout]
  ELSE CHOOSE b \in {After(r) : r \in {IF impl = "mock"
                                       THEN [result |-> outcome = "true", logged |-> <<>>,
                                             threw |-> outcome = "threw"]
                                       ELSE validateSecret(name, value, text.tokens)}} : TRUE

\* index.ts 35-73: one iteration of the for loop
RunRule ==
  /\ pc = "loop"
  /\ UNCHANGED cliVars
  /\ UNCHANGED envVars
  /\ UNCHANGED concVars
  /\ idx <= Len(entries)
  /\ UNCHANGED <<file, env, impl, pc, entries, escaped, input>>
  /\ LET name == entries[idx].name
         regex == entries[idx].regex
         secretValue == EnvGet(name)
     IN
     /\ lookups' = Append(lookups, name)
     /\ IF ValueMissing(secretValue)
        THEN LET m == MissingBranch(calls, name) IN
             /\ calls' = m.calls
             /\ hasFailures' = m.hasFailures
             /\ idx' = ContinueAfterMissing(idx, Len(entries))
             /\ UNCHANGED <<consoleLog, vsCalls, stdout>>
        ELSE \E outcome \in MockOutcomes, coercion \in Coercions :
             \E b \in {ValidateBranch(name, secretValue.v, regex, outcome, coercion)} :
             /\ calls' = b.calls
             /\ hasFailures' = b.hasFailures
             /\ consoleLog' = b.consoleLog
             /\ vsCalls' = b.vsCalls
             /\ stdout' = b.stdout
             /\ idx' = idx + 1

\* The final report with the branches exchanged
FinishInverted(log, hf) ==
  IF hf THEN Append(log, Call("info", MsgAllValid))
  ELSE Append(log, Call("setFailed", MsgOneOrMore))

\* index.ts 75-79
Finish(log, hf) ==
  IF hf THEN Append(log, Call("setFailed", MsgOneOrMore))
  ELSE Append(log, Call("info", MsgAllValid))

\* index.ts 73-79: the loop is over, the run reports
RunFinish ==
  /\ pc = "loop"
  /\ UNCHANGED cliVars
  /\ UNCHANGED envVars
  /\ UNCHANGED concVars
  /\ idx > Len(entries)
  /\ calls' = Finish(calls, hasFailures)
  /\ pc' = "done"
  /\ UNCHANGED <<file, env, impl, entries, idx, hasFailures, lookups, vsCalls,
                 consoleLog, stdout, escaped, input>>

Next == RunStart \/ RunParse \/ RunRule \/ RunFinish

Spec == Init /\ [][Next]_vars

\* ------------------------------------------- validateSecret called directly
InitValidate ==
  /\ input \in [name : SecretNames,
                value : SeqsUpTo(ValueChars, MaxValLen),
                pattern : SeqsUpTo(PatternTokens, MaxPatLen)]
  /\ file = [st |-> "noinput", msg |-> "", doc |-> NoDoc]
  /\ env = << >>
  /\ impl = "real"
  /\ pc = "call"
  /\ entries = <<>>
  /\ idx = 1
  /\ hasFailures = FALSE
  /\ calls = <<>>
  /\ lookups = <<>>
  /\ vsCalls = <<>>
  /\ consoleLog = <<"original">>
  /\ stdout = <<>>
  /\ escaped = "none"
  /\ argv = <<>>
  /\ stderr = <<>>
  /\ exitCode = NotExited
  /\ checkFiles = NoCheckFiles
  /\ runs = <<>>
  /\ running = "none"
  /\ envChecks = <<>>

\* validateSecrets.ts 8-22 called with console.log as installed
ValidateCall ==
  /\ pc = "call"
  /\ UNCHANGED cliVars
  /\ UNCHANGED envVars
  /\ UNCHANGED concVars
  /\ LET r == validateSecret(input.name, input.value, input.pattern) IN
     /\ vsCalls' = Append(vsCalls, [name |-> input.name, value |-> input.value,
                                    pattern |-> input.pattern,
                                    outcome |-> IF r.threw THEN "threw"
                                                ELSE IF r.result THEN "true" ELSE "false"])
     /\ stdout' = stdout \o r.logged
  /\ pc' = "returned"
  /\ UNCHANGED <<file, env, impl, entries, idx, hasFailures, calls, lookups,
                 consoleLog, escaped, input>>

NextValidate == ValidateCall

SpecValidate == InitValidate /\ [][NextValidate]_vars

\* run() is one async function: once called, the event loop resumes it
\* after the await of line 24 and it runs on to its end.
\* The steps of a run depend on a value only through its being unset, empty
\* or matched by the patterns: one character is enough here.
FairEnvironments ==
  UNION {[D -> {<<>>, <<"a">>}] : D \in SUBSET SecretNames}

InitFair ==
  /\ file \in ConfigFiles
  /\ env \in FairEnvironments
  /\ impl \in Implementations
  /\ pc = "start"
  /\ entries = <<>>
  /\ idx = 1
  /\ hasFailures = FALSE
  /\ calls = <<>>
  /\ lookups = <<>>
  /\ vsCalls = <<>>
  /\ consoleLog = <<"original">>
  /\ stdout = <<>>
  /\ escaped = "none"
  /\ input = NoInput
  /\ argv = <<>>
  /\ stderr = <<>>
  /\ exitCode = NotExited
  /\ checkFiles = NoCheckFiles
  /\ runs = <<>>
  /\ running = "none"
  /\ envChecks = <<>>

SpecFair == InitFair /\ [][Next]_vars /\ WF_vars(Next)

\* run() on a file that parses, the real validateSecret imported
InitIsolation ==
  /\ file \in IsolationFiles
  /\ env \in Environments
  /\ impl = "real"
  /\ pc = "start"
  /\ entries = <<>>
  /\ idx = 1
  /\ hasFailures = FALSE
  /\ calls = <<>>
  /\ lookups = <<>>
  /\ vsCalls = <<>>
  /\ consoleLog = <<"original">>
  /\ stdout = <<>>
  /\ escaped = "none"
  /\ input = NoInput
  /\ argv = <<>>
  /\ stderr = <<>>
  /\ exitCode = NotExited
  /\ checkFiles = NoCheckFiles
  /\ runs = <<>>
  /\ running = "none"
  /\ envChecks = <<>>

SpecIsolation == InitIsolation /\ [][Next]_vars

\* ------------------------------------------- the command-line entry point
NameFlag == <<"-", "-", "n", "a", "m", "e">>
ValueFlag == <<"-", "-", "v", "a", "l", "u", "e">>
RegexFlag == <<"-", "-", "r", "e", "g", "e", "x">>
Flags == {NameFlag, ValueFlag, RegexFlag}

\* The words a command line is made of: the flags, a word that as a
\* pattern matches itself, a word that is a malformed pattern, the empty word.
CliWords == Flags \cup {<<"a">>, <<"(">>, <<>>}

MsgUsage ==
  <<"Missing required arguments. Usage: node validateSecrets.js --name NAME --value VALUE --regex PATTERN">>
MsgUnexpected(message) == <<"Unexpected error: ", message>>

\* validateSecrets.ts 28-44: the argument loop from index i on
RECURSIVE ParseArgs(_, _, _)
ParseArgs(args, i, acc) ==
  IF i > Len(args) THEN acc
  ELSE IF args[i] = NameFlag /\ i + 1 <= Len(args)
       THEN ParseArgs(args, i + 2, [acc EXCEPT !.name = args[i + 1]])
  ELSE IF args[i] = ValueFlag /\ i + 1 <= Len(args)
       THEN ParseArgs(args, i + 2, [acc EXCEPT !.value = args[i + 1]])
  ELSE IF args[i] = RegexFlag /\ i + 1 <= Len(args)
       THEN ParseArgs(args, i + 2, [acc EXCEPT !.regex = args[i + 1]])
  ELSE ParseArgs(args, i + 1, acc)

\* validateSecrets.ts 29-31: let name = '', value = '', regex = ''
NoArgs == [name |-> <<>>, value |-> <<>>, regex |-> <<>>]

\* The test of line 46 with && for ||
ArgsMissingAll(a) == a.name = <<>> /\ a.value = <<>> /\ a.regex = <<>>

\* validateSecrets.ts 46: !name || !value || !regex
ArgsMissing(a) == StringNot(a.name) \/ StringNot(a.value) \/ StringNot(a.regex)

\* The exit code not depending on the result
ExitCodeZero(result) == 0

\* validateSecrets.ts 52: result ? 0 : 1
ExitCodeOf(result) == IF result THEN 0 ELSE 1

InitCli ==
  /\ argv \in SeqsUpTo(CliWords, MaxArgs)
  /\ file = [st |-> "noinput", msg |-> "", doc |-> NoDoc]
  /\ env = << >>
  /\ impl = "real"
  /\ pc = "main"
  /\ entries = <<>>
  /\ idx = 1
  /\ hasFailures = FALSE
  /\ calls = <<>>
  /\ lookups = <<>>
  /\ vsCalls = <<>>
  /\ consoleLog = <<"original">>
  /\ stdout = <<>>
  /\ escaped = "none"
  /\ input = NoInput
  /\ stderr = <<>>
  /\ exitCode = NotExited
  /\ checkFiles = NoCheckFiles
  /\ runs = <<>>
  /\ running = "none"
  /\ envChecks = <<>>

\* validateSecrets.ts 25-58: the main block; process.exit ends the process
CliMain ==
  /\ pc = "main"
  /\ pc' = "exited"
  /\ UNCHANGED <<file, env, impl, entries, idx, hasFailures, calls, lookups,
                 consoleLog, escaped, input, argv, envVars, concVars>>
  /\ LET a == ParseArgs(argv, 1, NoArgs) IN
     IF ArgsMissing(a)
     THEN /\ stderr' = Append(stderr, MsgUsage)
          /\ exitCode' = 1
          /\ UNCHANGED <<stdout, vsCalls>>
     ELSE LET r == validateSecret(PatternText(a.name), a.value, a.regex) IN
          /\ vsCalls' = Append(vsCalls, [name |-> PatternText(a.name), value |-> a.value,
                                         pattern |-> a.regex,
                                         outcome |-> IF r.threw THEN "threw"
                                                     ELSE IF r.result THEN "true" ELSE "false"])
          /\ stdout' = stdout \o r.logged
          /\ IF r.threw
             THEN \* lines 53-57
                  /\ stderr' = Append(stderr, MsgUnexpected("error"))
                  /\ exitCode' = 1
             ELSE /\ stderr' = stderr
                  /\ exitCode' = ExitCodeOf(r.result)

NextCli == CliMain

SpecCli == InitCli /\ [][NextCli]_vars

\* ------------------------------------- both entry points, empty values
\* Patterns for the empty-value case: one that accepts the empty string,
\* one that does not.
EmptyCasePatterns == {JSString(<<"a", "*">>), JSString(<<"^", "a", "+", "$">>)}

EmptyCaseTables ==
  {es \in UNION {[1..n -> [name : SecretNames, regex : EmptyCasePatterns]] : n \in 0..MaxRules} :
     IsInjective(RuleNames(es))}

\* Command lines that give the three flags, each with a word, the name and
\* the value possibly empty
EmptyCaseLines ==
  {<<NameFlag, n, ValueFlag, v, RegexFlag, r>> :
     n \in {<<>>, <<"a">>}, v \in {<<>>, <<"a">>}, r \in SeqsUpTo(PatternTokens, MaxPatLen)}

\* Either run() is called, or the command line is run
InitEmptyCase ==
  /\ \/ /\ pc = "start"
        /\ file \in {[st |-> "ok", msg |-> "", doc |-> [secrets |-> JSTable(es), other |-> JSUndefined]] :
                       es \in EmptyCaseTables}
        /\ env \in FairEnvironments
        /\ impl \in Implementations
        /\ argv = <<>>
     \/ /\ pc = "main"
        /\ file = [st |-> "noinput", msg |-> "", doc |-> NoDoc]
        /\ env = << >>
        /\ impl = "real"
        /\ argv \in EmptyCaseLines
  /\ entries = <<>>
  /\ idx = 1
  /\ hasFailures = FALSE
  /\ calls = <<>>
  /\ lookups = <<>>
  /\ vsCalls = <<>>
  /\ consoleLog = <<"original">>
  /\ stdout = <<>>
  /\ escaped = "none"
  /\ input = NoInput
  /\ stderr = <<>>
  /\ exitCode = NotExited
  /\ checkFiles = NoCheckFiles
  /\ runs = <<>>
  /\ running = "none"
  /\ envChecks = <<>>

NextEmptyCase == Next \/ NextCli

SpecEmptyCase == InitEmptyCase /\ [][NextEmptyCase]_vars

\* ------------------------------------------------ the environment check
\* validateEnv.ts 28: {40}
ShaLength == 40

\* validateEnv.ts 28: [0-9a-fA-F]
HexChars ==
  {"0", "1", "2", "3", "4", "5", "6", "7", "8", "9",
   "a", "b", "c", "d", "e", "f", "A", "B", "C", "D", "E", "F"}

\* The test with {40} left out
IsHexOnly(value) == \A i \in DOMAIN value : value[i] \in HexChars

\* validateEnv.ts 28: /^[0-9a-fA-F]{40}$/.test(value)
IsSha(value) == Len(value) = ShaLength /\ \A i \in DOMAIN value : value[i] \in HexChars

MsgEnvMissing(key) == "Environment variable " \o key \o " is missing."
MsgNotSha(key) == "Environment variable " \o key \o " is not a valid SHA."

\* validateEnv.ts 20-32, from the i-th key of the for-in on: whether an
\* Error was thrown, and its message
RECURSIVE ValidateEnvFrom(_, _, _)
ValidateEnvFrom(e, checks, i) ==
  IF i > Len(checks) THEN [threw |-> FALSE, message |-> ""]
  ELSE LET key == checks[i].key
           expectedType == checks[i].type
       IN
       IF key \notin DOMAIN e \/ StringNot(e[key])
       THEN [threw |-> TRUE, message |-> MsgEnvMissing(key)]
       ELSE IF expectedType = "sha" /\ ~IsSha(e[key])
       THEN [threw |-> TRUE, message |-> MsgNotSha(key)]
       ELSE ValidateEnvFrom(e, checks, i + 1)

validateEnv(e, checks) == ValidateEnvFrom(e, checks, 1)

Repeat(c, n) == [i \in 1..n |-> c]

\* Values around the length of a SHA: empty, short, one short, exact in
\* lower case, one long, exact with mixed case and digits, exact with a
\* letter that is no hex digit
ShaValues ==
  LET exact == Repeat("a", ShaLength) IN
  {<<>>, <<"a">>, SubSeq(exact, 1, ShaLength - 1), exact, Append(exact, "a"),
   [exact EXCEPT ![1] = "F", ![ShaLength] = "9"], [exact EXCEPT ![ShaLength] = "g"]}

CheckKeys == {"X", "Y", "Z"}
CheckTypes == {"sha", "string", "SHA"}

\* envChecks: at most MaxChecks keys in iteration order, each key once
CheckKeysOf(checks) == [i \in DOMAIN checks |-> checks[i].key]
CheckTables ==
  {cs \in UNION {[1..n -> [key : CheckKeys, type : CheckTypes]] : n \in 0..MaxChecks} :
     IsInjective(CheckKeysOf(cs))}

ShaEnvironments == UNION {[D -> ShaValues] : D \in SUBSET CheckKeys}

\* A direct call of validateEnv
InitValidateEnv ==
  /\ env \in ShaEnvironments
  /\ envChecks \in CheckTables
  /\ pc = "envcall"
  /\ file = [st |-> "noinput", msg |-> "", doc |-> NoDoc]
  /\ impl = "real"
  /\ entries = <<>>
  /\ idx = 1
  /\ hasFailures = FALSE
  /\ calls = <<>>
  /\ lookups = <<>>
  /\ vsCalls = <<>>
  /\ consoleLog = <<"original">>
  /\ stdout = <<>>
  /\ escaped = "none"
  /\ input = NoInput
  /\ argv = <<>>
  /\ stderr = <<>>
  /\ exitCode = NotExited
  /\ checkFiles = NoCheckFiles
  /\ runs = <<>>
  /\ running = "none"

\* validateEnv.ts 20-32 called; an Error it throws reaches the caller
ValidateEnvCall ==
  /\ pc = "envcall"
  /\ \E r \in {validateEnv(env, envChecks)} :
       /\ escaped' = IF r.threw THEN r.message ELSE "none"
       /\ pc' = IF r.threw THEN "envthrew" ELSE "envreturned"
  /\ UNCHANGED <<file, env, impl, entries, idx, hasFailures, calls, lookups, vsCalls,
                 consoleLog, stdout, input, cliVars, envVars, concVars>>

NextValidateEnv == ValidateEnvCall

SpecValidateEnv == InitValidateEnv /\ [][NextValidateEnv]_vars

\* ------------------------------- the entry point of the environment check
\* String.prototype.split(sep) on a line kept as a tuple of pieces
RECURSIVE SplitFrom(_, _, _, _)
SplitFrom(s, sep, i, part) ==
  IF i > Len(s) THEN <<part>>
  ELSE IF s[i] = sep THEN <<part>> \o SplitFrom(s, sep, i + 1, <<>>)
  ELSE SplitFrom(s, sep, i + 1, Append(part, s[i]))
Split(s, sep) == SplitFrom(s, sep, 1, <<>>)

\* validateEnv.ts 14: envChecks[key] = type; a key set again keeps its place
SetCheck(checks, key, type) ==
  IF \E i \in DOMAIN checks : checks[i].key = key
  THEN [i \in DOMAIN checks |->
          IF checks[i].key = key THEN [key |-> key, type |-> type] ELSE checks[i]]
  ELSE Append(checks, [key |-> key, type |-> type])

\* validateEnv.ts 11-16: the lines of the file, one after the other
RECURSIVE LoadLines(_, _, _)
LoadLines(lines, i, checks) ==
  IF i > Len(lines) THEN checks
  ELSE LET parts == Split(lines[i], ":")
           key == PatternText(Trim(parts[1]))
           type == IF Len(parts) >= 2 THEN PatternText(Trim(parts[2])) ELSE ""
       IN
       IF key # "" /\ type # ""
       THEN LoadLines(lines, i + 1, SetCheck(checks, key, type))
       ELSE LoadLines(lines, i + 1, checks)

MsgNoChecksFile == "ENOENT: no such file or directory, open"

\* validateEnv.ts 8-18: readFileSync throws for a file that is not there
loadEnvChecks(f) ==
  IF f.st # "ok" THEN [threw |-> TRUE, message |-> MsgNoChecksFile, checks |-> <<>>]
  ELSE [threw |-> FALSE, message |-> "", checks |-> LoadLines(f.lines, 1, <<>>)]

\* validateEnv.ts 35-40, part_002 8-13: the variables that are not undefined
FilteredEnv(e) == [k \in DOMAIN e |-> e[k]]

\* Lines of a checks file: a sha key, a key of another type, the sha key
\* given another type, a line without a colon
CheckLines ==
  {<<"X", ":", " ", "sha">>, <<"Y", ":", "string">>, <<"X", ":", "string">>,
   <<"X", " ", "=", " ", "sha">>}

CheckFileStates ==
  {[st |-> "missing", lines |-> <<>>]}
  \cup {[st |-> "ok", lines |-> ls] : ls \in SeqsUpTo(CheckLines, MaxChecks)}

EntryValues ==
  {<<>>, Repeat("a", ShaLength), [Repeat("a", ShaLength) EXCEPT ![ShaLength] = "g"]}

EntryEnvironments == UNION {[D -> EntryValues] : D \in SUBSET {"X", "Y"}}

InitEnvCheck ==
  /\ checkFiles \in [bundled : CheckFileStates, given : CheckFileStates]
  /\ env \in EntryEnvironments
  /\ pc = "import"
  /\ envChecks = <<>>
  /\ runs = <<>>
  /\ running = "none"
  /\ file = [st |-> "noinput", msg |-> "", doc |-> NoDoc]
  /\ impl = "real"
  /\ entries = <<>>
  /\ idx = 1
  /\ hasFailures = FALSE
  /\ calls = <<>>
  /\ lookups = <<>>
  /\ vsCalls = <<>>
  /\ consoleLog = <<"original">>
  /\ stdout = <<>>
  /\ escaped = "none"
  /\ input = NoInput
  /\ argv = <<>>
  /\ stderr = <<>>
  /\ exitCode = NotExited

\* part_002 2: the import runs the body of validateEnv.ts, whose lines
\* 34-43 load ../env_checks.toml and call validateEnv, outside any try
EnvImport ==
  /\ pc = "import"
  /\ \E l \in {loadEnvChecks(checkFiles.bundled)} :
       IF l.threw
       THEN /\ escaped' = l.message
            /\ pc' = "crashed"
       ELSE \E r \in {validateEnv(FilteredEnv(env), l.checks)} :
            /\ escaped' = IF r.threw THEN r.message ELSE "none"
            /\ pc' = IF r.threw THEN "crashed" ELSE "entry"
  /\ UNCHANGED <<file, env, impl, entries, idx, hasFailures, calls, lookups, vsCalls,
                 consoleLog, stdout, input, cliVars, envVars, concVars>>

\* part_002 4-18: the try block and its catch
EnvEntry ==
  /\ pc = "entry"
  /\ pc' = "done"
  /\ \E l \in {loadEnvChecks(checkFiles.given)} :
       IF l.threw
       THEN /\ calls' = Append(calls, Call("setFailed", <<l.message>>))
            /\ envChecks' = envChecks
       ELSE \E r \in {validateEnv(FilteredEnv(env), l.checks)} :
            /\ envChecks' = l.checks
            /\ calls' = IF r.threw
                        THEN Append(calls, Call("setFailed", <<r.message>>))
                        ELSE Append(calls, Call("setOutput", <<"validation-passed", "true">>))
  /\ UNCHANGED <<file, env, impl, entries, idx, hasFailures, lookups, vsCalls,
                 consoleLog, stdout, escaped, input, cliVars, checkFiles, concVars>>

NextEnvCheck == EnvImport \/ EnvEntry

SpecEnvCheck == InitEnvCheck /\ [][NextEnvCheck]_vars

\* ------------------------------------------ concurrent invocations of run()
\* Two calls of run() started from one task, as in Promise.all([run(), run()])
Invocations == {"r1", "r2"}

\* An await placed before the call of line 55 as well
AwaitsWithValidate == {"reading", "installed"}

\* index.ts 24: the one await of run(); the function yields the thread
\* there and nowhere else
Awaits == {"reading"}

ConcCapture(p, i) == <<"capture", p, ToString(i)>>

ConcTables ==
  {es \in UNION {[1..n -> [name : SecretNames,
                           regex : {x \in RunPatternValues : x.kind = "string"}]] :
                   n \in 0..MaxRules} :
     IsInjective(RuleNames(es))}

InitConc ==
  /\ file \in {[st |-> "ok", msg |-> "", doc |-> [secrets |-> JSTable(es), other |-> JSUndefined]] :
                 es \in ConcTables}
  /\ env \in FairEnvironments
  /\ runs = [p \in Invocations |->
               [pc |-> "start", idx |-> 1, hasFailures |-> FALSE, calls |-> <<>>,
                saved |-> <<"original">>, out |-> <<>>, isValid |-> FALSE]]
  /\ running = "none"
  /\ impl = "real"
  /\ pc = "conc"
  /\ entries = <<>>
  /\ idx = 1
  /\ hasFailures = FALSE
  /\ calls = <<>>
  /\ lookups = <<>>
  /\ vsCalls = <<>>
  /\ consoleLog = <<"original">>
  /\ stdout = <<>>
  /\ escaped = "none"
  /\ input = NoInput
  /\ argv = <<>>
  /\ stderr = <<>>
  /\ exitCode = NotExited
  /\ checkFiles = NoCheckFiles
  /\ envChecks = <<>>

\* The invocation may take a step: the thread is free or it holds it
MayRun(p) == running \in {"none", p}

\* After the step: the thread is given up at an await and at the end
Yield(p, nextPc) == IF nextPc \in Awaits \cup {"done"} THEN "none" ELSE p

ConcFrame == UNCHANGED <<file, env, impl, pc, entries, idx, hasFailures, calls, lookups,
                         vsCalls, escaped, input, cliVars, envVars>>

\* index.ts 12-24: up to the await of readFile
ConcStart(p) ==
  /\ MayRun(p) /\ runs[p].pc = "start"
  /\ runs' = [runs EXCEPT ![p].pc = "reading",
                          ![p].calls = Append(@, Call("debug", MsgLooking))]
  /\ running' = Yield(p, "reading")
  /\ UNCHANGED <<consoleLog, stdout>>
  /\ ConcFrame

\* index.ts 24-33: resumed after the await
ConcResume(p) ==
  /\ MayRun(p) /\ runs[p].pc = "reading"
  /\ IF SectionMissing(file.doc)
     THEN /\ runs' = [runs EXCEPT ![p].pc = "done",
                                  ![p].calls = Append(@, Call("setFailed", MsgMissingSection))]
          /\ running' = Yield(p, "done")
     ELSE /\ runs' = [runs EXCEPT ![p].pc = "loop",
                                  ![p].calls = Append(@, Call("info",
                                     MsgFound(Len(ObjectEntries(SecretsOf(file.doc))))))]
          /\ running' = Yield(p, "loop")
  /\ UNCHANGED <<consoleLog, stdout>>
  /\ ConcFrame

\* index.ts 35-53 and 73-79: the head of the loop; for a rule with a value,
\* up to the installation of the capturing console.log
ConcLoop(p) ==
  /\ MayRun(p) /\ runs[p].pc = "loop"
  /\ LET es == ObjectEntries(SecretsOf(file.doc))
         me == runs[p]
     IN
     IF me.idx > Len(es)
     THEN /\ runs' = [runs EXCEPT ![p].pc = "done",
                                  ![p].calls = Finish(me.calls, me.hasFailures)]
          /\ running' = Yield(p, "done")
          /\ UNCHANGED consoleLog
     ELSE IF ValueMissing(EnvGet(es[me.idx].name))
     THEN \E m \in {MissingBranch(me.calls, es[me.idx].name)} :
          /\ runs' = [runs EXCEPT ![p].calls = m.calls,
                                  ![p].hasFailures = m.hasFailures,
                                  ![p].idx = ContinueAfterMissing(me.idx, Len(es))]
          /\ running' = Yield(p, "loop")
          /\ UNCHANGED consoleLog
     ELSE /\ runs' = [runs EXCEPT ![p].pc = "installed",
                                  ![p].calls = Append(@, Call("debug",
                                     MsgValidating(es[me.idx].name,
                                                   PatternText(es[me.idx].regex.v)))),
                                  ![p].saved = consoleLog,
                                  ![p].out = <<>>]
          /\ consoleLog' = ConcCapture(p, me.idx)
          /\ running' = Yield(p, "installed")
  /\ UNCHANGED stdout
  /\ ConcFrame

\* index.ts 55: validateSecret writes to whatever console.log is now
ConcValidate(p) ==
  /\ MayRun(p) /\ runs[p].pc = "installed"
  /\ LET es == ObjectEntries(SecretsOf(file.doc))
         e == es[runs[p].idx]
     IN
     \E r \in {validateSecret(e.name, env[e.name], e.regex.v)} :
     \E lines \in {[k \in DOMAIN r.logged |-> [from |-> p, line |-> r.logged[k]]]} :
       /\ IF consoleLog = <<"original">>
          THEN /\ stdout' = stdout \o r.logged
               /\ runs' = [runs EXCEPT ![p].pc = "validated", ![p].isValid = r.result]
          ELSE \* the capture of invocation consoleLog[2]
               /\ stdout' = stdout
               /\ runs' = [q \in Invocations |->
                             [runs[q] EXCEPT
                                !.pc = IF q = p THEN "validated" ELSE @,
                                !.isValid = IF q = p THEN r.result ELSE @,
                                !.out = IF q = consoleLog[2] THEN @ \o lines ELSE @]]
  /\ running' = Yield(p, "validated")
  /\ UNCHANGED consoleLog
  /\ ConcFrame

\* index.ts 58-67: console.log is put back, the captured text is forwarded
ConcRestore(p) ==
  /\ MayRun(p) /\ runs[p].pc = "validated"
  /\ LET es == ObjectEntries(SecretsOf(file.doc))
         me == runs[p]
         validationOutput == Captured([k \in DOMAIN me.out |-> me.out[k].line])
         log2 == IF validationOutput # <<>>
                 THEN Append(me.calls, Call("info", Trim(validationOutput)))
                 ELSE me.calls
     IN
     \E a \in {AfterValidate(log2, es[me.idx].name, me.isValid, me.hasFailures)} :
       runs' = [runs EXCEPT ![p].pc = "loop",
                            ![p].calls = a.calls,
                            ![p].hasFailures = a.hasFailures,
                            ![p].idx = me.idx + 1]
  /\ consoleLog' = runs[p].saved
  /\ running' = Yield(p, "loop")
  /\ UNCHANGED stdout
  /\ ConcFrame

NextConc ==
  \E p \in Invocations :
    ConcStart(p) \/ ConcResume(p) \/ ConcLoop(p) \/ ConcValidate(p) \/ ConcRestore(p)

SpecConc == InitConc /\ [][NextConc]_vars

\* =================================================================== claims
Secrets == file.doc.secrets

\* The rules the configuration declares, as the input gives them
Declared == ObjectEntries(Secrets)

HasCall(fn, msg) == \E i \in DOMAIN calls : calls[i] = Call(fn, msg)
CountCall(fn, msg) == Cardinality({i \in DOMAIN calls : calls[i] = Call(fn, msg)})
CountCalls(fn) == Cardinality({i \in DOMAIN calls : calls[i].fn = fn})
VsCountFor(name) == Cardinality({k \in DOMAIN vsCalls : vsCalls[k].name = name})
LookupCount(name) == Cardinality({k \in DOMAIN lookups : lookups[k] = name})
Passed(name) == \E k \in DOMAIN vsCalls : vsCalls[k].name = name /\ vsCalls[k].outcome = "true"
EnvMissing(name) == name \notin DOMAIN env \/ env[name] = <<>>
Malformed(e) == e.regex.kind = "string" /\ ~NewRegExp(e.regex.v).ok

\* The file exists, parses, and its 'secrets' entry passes the check of line 27
ConfigChecksPass == file.st = "ok" /\ ~Falsy(Secrets)
RunEnded == pc = "done"
LoopEnded == RunEnded /\ ConfigChecksPass
SuccessSignalled == HasCall("info", MsgAllValid) /\ CountCalls("setFailed") = 0
NoRuleTouched ==
  /\ lookups = <<>>
  /\ vsCalls = <<>>
  /\ CountCalls("warning") = 0
  /\ CountCalls("error") = 0
  /\ ~HasCall("info", MsgAllValid)

\* C1: a finished run signals success (the success line, setFailed never
\* called) exactly when the configuration passed its checks and every
\* declared rule has a non-empty environment value for which
\* validateSecret returned true; otherwise setFailed was called and the
\* success line was not emitted.
C1_SuccessIffAllValid ==
  RunEnded =>
    /\ SuccessSignalled <=>
         /\ ConfigChecksPass
         /\ \A i \in DOMAIN Declared :
              ~EnvMissing(Declared[i].name) /\ Passed(Declared[i].name)
    /\ ~SuccessSignalled =>
         CountCalls("setFailed") >= 1 /\ ~HasCall("info", MsgAllValid)

C1_Witness ==
  /\ RunEnded /\ SuccessSignalled /\ impl = "real"
  /\ Len(Declared) = 2 /\ Len(vsCalls) = 2

\* C2: when the loop has ended, every declared rule was looked up exactly
\* once, in order, up to the last one, and every rule with a pattern
\* string was either reported missing or passed to validateSecret, exactly
\* once, whatever happened to the rules before it.
C2_EveryRuleProcessedOnce ==
  LoopEnded =>
    /\ lookups = RuleNames(Declared)
    /\ \A i \in DOMAIN Declared :
         LET n == Declared[i].name
             handled == CountCall("warning", MsgNotInEnv(n)) + VsCountFor(n)
         IN /\ handled <= 1
            /\ Declared[i].regex.kind = "string" => handled = 1

C2_Witness ==
  /\ LoopEnded /\ Len(Declared) = 2 /\ Len(vsCalls) = 2
  /\ vsCalls[1].outcome = "threw"
  /\ vsCalls[2].name = Declared[2].name

\* C3: a rule whose environment value is absent or empty gets the
\* not-found warning, makes the run end with setFailed 'One or more
\* secrets failed validation', is never passed to validateSecret, and
\* leaves the other rules processed (those with a value and a pattern
\* string are validated).
C3_MissingValueWarned ==
  LoopEnded =>
    \A i \in DOMAIN Declared :
      EnvMissing(Declared[i].name) =>
        /\ CountCall("warning", MsgNotInEnv(Declared[i].name)) = 1
        /\ calls[Len(calls)] = Call("setFailed", MsgOneOrMore)
        /\ CountCalls("setFailed") = 1
        /\ VsCountFor(Declared[i].name) = 0
        /\ \A j \in DOMAIN Declared \ {i} :
             /\ LookupCount(Declared[j].name) = 1
             /\ (~EnvMissing(Declared[j].name) /\ Declared[j].regex.kind = "string")
                  => VsCountFor(Declared[j].name) = 1

C3_Witness ==
  /\ LoopEnded /\ Len(Declared) = 2
  /\ Declared[1].name \in DOMAIN env /\ env[Declared[1].name] = <<>>
  /\ HasCall("warning", MsgNotInEnv(Declared[1].name))
  /\ Passed(Declared[2].name)

\* C4: a direct call of validateSecret returns true exactly when the
\* pattern compiles and its test against the value matches; with a pattern
\* that does not compile it returns false, and no error leaves the call.
C4_TrueIffCompilesAndMatches ==
  pc = "returned" =>
    LET regex == NewRegExp(input.pattern) IN
    /\ Len(vsCalls) = 1
    /\ vsCalls[1].outcome = "true" <=> (regex.ok /\ RegExpTest(regex, input.value))
    /\ ~regex.ok => vsCalls[1].outcome = "false"
    /\ vsCalls[1].outcome # "threw"

C4_Witness ==
  /\ pc = "returned"
  /\ ~NewRegExp(input.pattern).ok
  /\ vsCalls[1].outcome = "false"

\* C5: with no file at the configured path, no rule is ever touched (no
\* environment lookup, no validateSecret call, no warning, no error
\* annotation, no success line), and the run ends with setFailed called
\* exactly once, its message beginning 'TOML file not found at path'.
C5_NotFoundIsFatal ==
  file.st = "notfound" =>
    /\ NoRuleTouched
    /\ RunEnded =>
         /\ CountCalls("setFailed") = 1
         /\ \E i \in DOMAIN calls :
              calls[i].fn = "setFailed" /\ calls[i].msg[1] = "TOML file not found at path: "

C5_Witness == file.st = "notfound" /\ RunEnded /\ CountCalls("setFailed") = 1

\* C6: with a file that parses and has no 'secrets' entry, no rule is
\* ever touched, and the run ends with setFailed called exactly once with
\* 'Invalid configuration file format. Missing "secrets" section.'.
C6_NoSectionIsFatal ==
  (file.st = "ok" /\ Secrets.kind = "undefined") =>
    /\ NoRuleTouched
    /\ RunEnded =>
         /\ CountCalls("setFailed") = 1
         /\ HasCall("setFailed", MsgMissingSection)

C6_Witness ==
  /\ file.st = "ok" /\ Secrets.kind = "undefined"
  /\ RunEnded /\ HasCall("setFailed", MsgMissingSection)

\* A table whose values are all pattern strings
StringMapping(x) ==
  x.kind = "table" /\ \A i \in DOMAIN x.entries : x.entries[i].regex.kind = "string"

\* C7: with a 'secrets' entry that is present and is not a
\* string-to-string mapping, the run ends with the invalid-configuration
\* error and no rule is touched.
C7_NonMappingIsFatal ==
  (file.st = "ok" /\ Secrets.kind # "undefined" /\ ~StringMapping(Secrets)) =>
    /\ lookups = <<>>
    /\ vsCalls = <<>>
    /\ RunEnded => HasCall("setFailed", MsgMissingSection)

\* C8: with a file the parser rejects, no error leaves run(), no rule is
\* ever touched, and the run ends with setFailed called exactly once, its
\* message wrapping the parser's message.
C8_ParseErrorReported ==
  file.st = "syntax" =>
    /\ escaped = "none"
    /\ NoRuleTouched
    /\ RunEnded =>
         /\ CountCalls("setFailed") = 1
         /\ HasCall("setFailed", MsgFatal(file.msg))

C8_Witness ==
  /\ file.st = "syntax" /\ RunEnded
  /\ \E m \in ParserMessages : calls[Len(calls)] = Call("setFailed", <<"Secret validation failed: ", m>>)

\* What C9 says of one rule when the loop has ended
MalformedRuleReported(i) ==
  /\ CountCall("error", MsgFailedFor(Declared[i].name)) = 1
  /\ lookups = RuleNames(Declared)
  /\ calls[Len(calls)] = Call("setFailed", MsgOneOrMore)
  /\ CountCalls("setFailed") = 1
  /\ escaped = "none"

\* C9 as stated: in a run with the real validateSecret, every rule whose
\* pattern is malformed gets its error annotation, the remaining rules are
\* processed, and the run ends with setFailed 'One or more secrets failed
\* validation' and nothing else.
C9_MalformedAlwaysAnnotated ==
  (LoopEnded /\ impl = "real") =>
    \A i \in DOMAIN Declared : Malformed(Declared[i]) => MalformedRuleReported(i)

\* C9 amended: the same for every rule whose pattern is malformed and
\* whose environment value is present and non-empty; a malformed rule
\* whose value is missing gets the not-found warning and no error
\* annotation, and the run ends with the same setFailed.
C9_MalformedWithValueAnnotated ==
  (LoopEnded /\ impl = "real") =>
    \A i \in DOMAIN Declared :
      Malformed(Declared[i]) =>
        IF EnvMissing(Declared[i].name)
        THEN /\ CountCall("error", MsgFailedFor(Declared[i].name)) = 0
             /\ CountCall("warning", MsgNotInEnv(Declared[i].name)) = 1
             /\ calls[Len(calls)] = Call("setFailed", MsgOneOrMore)
        ELSE MalformedRuleReported(i)

C9_Witness ==
  /\ LoopEnded /\ impl = "real" /\ Len(Declared) = 2
  /\ Malformed(Declared[1]) /\ ~EnvMissing(Declared[1].name)
  /\ HasCall("error", MsgFailedFor(Declared[1].name))
  /\ Passed(Declared[2].name)

\* C10 as stated: when the loop has ended with a failure, the error
\* annotation 'Validation failed for secret: <name>' was emitted for
\* exactly the rules that did not pass, missing values included.
C10_EveryFailureAnnotated ==
  (LoopEnded /\ hasFailures) =>
    \A i \in DOMAIN Declared :
      HasCall("error", MsgFailedFor(Declared[i].name)) <=> ~Passed(Declared[i].name)

\* C10 amended: the error annotation was emitted for exactly the rules
\* that have a value and did not pass (mismatch, compile error, or an
\* error thrown while validating); a rule with a missing value gets the
\* warning 'Secret "<name>" not found in environment.' instead.
C10_ValidatedFailuresAnnotated ==
  (LoopEnded /\ hasFailures) =>
    \A i \in DOMAIN Declared :
      LET n == Declared[i].name IN
      /\ HasCall("error", MsgFailedFor(n)) <=> (~EnvMissing(n) /\ ~Passed(n))
      /\ HasCall("warning", MsgNotInEnv(n)) <=> EnvMissing(n)

C10_Witness ==
  /\ LoopEnded /\ hasFailures /\ impl = "real" /\ Len(Declared) = 2
  /\ EnvMissing(Declared[1].name)
  /\ ~EnvMissing(Declared[2].name) /\ ~Passed(Declared[2].name)
  /\ HasCall("error", MsgFailedFor(Declared[2].name))
  /\ ~HasCall("error", MsgFailedFor(Declared[1].name))

MsgIsMissing(name) == <<"[x] Secret '", name, "' is missing.">>
Reported(msg) ==
  \/ \E i \in DOMAIN calls : calls[i].msg = msg
  \/ \E i \in DOMAIN stdout : stdout[i] = msg

\* C11 as stated: when the loop has ended, a rule whose value is missing
\* from the environment has the message "[x] Secret '<name>' is missing."
\* reported for it.
C11_MissingReportedAsIsMissing ==
  LoopEnded =>
    \A i \in DOMAIN Declared :
      EnvMissing(Declared[i].name) => Reported(MsgIsMissing(Declared[i].name))

\* C11 amended: the message reported for such a rule is the warning
\* 'Secret "<name>" not found in environment.', emitted once, and the
\* line "[x] Secret '<name>' is missing." is reported on no channel.
C11_MissingReportedAsNotFound ==
  LoopEnded =>
    \A i \in DOMAIN Declared :
      EnvMissing(Declared[i].name) =>
        /\ CountCall("warning", MsgNotInEnv(Declared[i].name)) = 1
        /\ ~Reported(MsgIsMissing(Declared[i].name))

C11_Witness ==
  /\ LoopEnded /\ Len(Declared) = 1
  /\ Declared[1].name \notin DOMAIN env
  /\ calls[Len(calls) - 1] = Call("warning", MsgNotInEnv(Declared[1].name))

\* A command line made of the three flags, each once, each followed by its word
WellFormed(args) ==
  /\ Len(args) = 6
  /\ {args[1], args[3], args[5]} = Flags

WordAfter(args, flag) == args[(CHOOSE i \in {1, 3, 5} : args[i] = flag) + 1]

\* The words a well-formed command line gives after its flags
Supplied ==
  [name |-> WordAfter(argv, NameFlag), value |-> WordAfter(argv, ValueFlag),
   regex |-> WordAfter(argv, RegexFlag)]

AllNonEmpty == Supplied.name # <<>> /\ Supplied.value # <<>> /\ Supplied.regex # <<>>

SuppliedMatches ==
  LET regex == NewRegExp(Supplied.regex) IN regex.ok /\ RegExpTest(regex, Supplied.value)

\* C12 as stated: on a command line that supplies a name, a value and a
\* pattern, the command exits with 0 exactly when the value matches the
\* pattern, and with 1 otherwise.
C12_ExitZeroIffSuppliedMatches ==
  (pc = "exited" /\ WellFormed(argv)) =>
    /\ exitCode = 0 <=> SuppliedMatches
    /\ ~SuppliedMatches => exitCode = 1

\* C12, amended: the command exits with 0 exactly when a name, a value and
\* a pattern are supplied, none of them the empty string, and the value
\* matches the pattern; otherwise it exits with 1 (an empty word counts as
\* a missing argument), and when the three are non-empty and the pattern
\* does not compile the 'Error validating secret' line is on stdout.
C12_ExitZeroIffNonEmptyAndMatches ==
  pc = "exited" =>
    /\ exitCode \in {0, 1}
    /\ exitCode = 0 => \A flag \in Flags : \E i \in 1..(Len(argv) - 1) : argv[i] = flag
    /\ WellFormed(argv) =>
         /\ exitCode = 0 <=> (AllNonEmpty /\ SuppliedMatches)
         /\ (AllNonEmpty /\ ~SuppliedMatches) =>
              /\ stderr = <<>>
              /\ Len(stdout) = 1
         /\ (AllNonEmpty /\ ~NewRegExp(Supplied.regex).ok) =>
              stdout = <<MsgError(PatternText(Supplied.name), NewRegExp(Supplied.regex).message)>>
         /\ ~AllNonEmpty => stderr = <<MsgUsage>>

C12_Witness ==
  /\ pc = "exited" /\ WellFormed(argv)
  /\ Supplied.name = <<>> /\ Supplied.value = <<"a">> /\ Supplied.regex = <<"a">>
  /\ exitCode = 1

\* No occurrence of the flag has a word after it
Absent(flag) == ~\E i \in 1..(Len(argv) - 1) : argv[i] = flag

\* C13: when one of --name, --value, --regex is absent from the arguments
\* (a flag that is the last argument counts as absent), the usage line is
\* written to stderr, the exit code is 1, and validateSecret is not called
\* (nothing is written to stdout).
C13_MissingArgumentUsage ==
  (pc = "exited" /\ \E flag \in Flags : Absent(flag)) =>
    /\ stderr = <<MsgUsage>>
    /\ exitCode = 1
    /\ vsCalls = <<>>
    /\ stdout = <<>>

C13_Witness ==
  /\ pc = "exited" /\ Len(argv) = 5
  /\ argv[1] = NameFlag /\ argv[2] = <<"a">>
  /\ argv[3] = ValueFlag /\ argv[4] = <<"a">>
  /\ argv[5] = RegexFlag
  /\ stderr = <<MsgUsage>>

\* The kind of a validation line is its leading text
KindValid == MsgValid("")[1]
KindNoMatch == MsgNoMatch("", <<>>)[1]
KindError == MsgError("", "")[1]

\* C14: a direct call of validateSecret writes exactly one line, and the
\* line is fixed by the outcome: the 'is valid' line for the name iff the
\* result is true, the 'does not match the required pattern' line with the
\* name and the pattern iff the pattern compiled and did not match, the
\* 'Error validating secret' line with the name and the compile error iff
\* the pattern did not compile; a true result never carries the error line.
C14_OneMessageByOutcome ==
  pc = "returned" =>
    LET regex == NewRegExp(input.pattern)
        matched == regex.ok /\ RegExpTest(regex, input.value)
        result == vsCalls[1].outcome = "true"
    IN
    /\ Len(stdout) = 1
    /\ result <=> stdout[1][1] = KindValid
    /\ result => stdout[1] = MsgValid(input.name)
    /\ (regex.ok /\ ~matched) <=> stdout[1][1] = KindNoMatch
    /\ (regex.ok /\ ~matched) => stdout[1] = MsgNoMatch(input.name, input.pattern)
    /\ ~regex.ok <=> stdout[1][1] = KindError
    /\ ~regex.ok => stdout[1] = MsgError(input.name, regex.message)
    /\ result => stdout[1][1] # KindError

C14_Witness ==
  /\ pc = "returned"
  /\ NewRegExp(input.pattern).ok
  /\ ~RegExpTest(NewRegExp(input.pattern), input.value)
  /\ stdout = <<MsgNoMatch(input.name, input.pattern)>>

\* The rules as a set, their order forgotten
RuleSet == {Declared[i] : i \in DOMAIN Declared}

\* The line validateSecret writes for a value and a pattern text
ValidationLine(name, value, tokens) ==
  LET regex == NewRegExp(tokens) IN
  IF ~regex.ok THEN MsgError(name, regex.message)
  ELSE IF RegExpTest(regex, value) THEN MsgValid(name)
  ELSE MsgNoMatch(name, tokens)

\* The warnings, error annotations and info lines one rule accounts for,
\* by itself, under one way of converting its pattern to text
ReportsOf(e, coercion) ==
  IF EnvMissing(e.name) THEN {Call("warning", MsgNotInEnv(e.name))}
  ELSE LET text == Coerce(e.regex, coercion)
           regex == NewRegExp(text.tokens)
       IN
       IF ~text.ok THEN {Call("error", MsgFailedFor(e.name))}
       ELSE {Call("info", ValidationLine(e.name, env[e.name], text.tokens))}
            \cup IF regex.ok /\ RegExpTest(regex, env[e.name]) THEN {}
                 ELSE {Call("error", MsgFailedFor(e.name))}

FailsAlone(e, coercion) ==
  \E c \in ReportsOf(e, coercion) : c.fn \in {"warning", "error"}

\* The per-rule reports of the run: after the path line and the count
\* line, before the final report
RuleReports ==
  {calls[i] : i \in {j \in 3..(Len(calls) - 1) : calls[j].fn \in {"warning", "error", "info"}}}

\* C16: with the real validateSecret the outcome of a finished run is a
\* function of the set of rules and the environment, whatever the order of
\* the rules in the table: the set of per-rule warnings, error annotations
\* and info lines is the union of what each rule accounts for by itself,
\* and the run ends with setFailed exactly when some rule of the set fails.
C16_OutcomeOrderFree ==
  (LoopEnded /\ impl = "real") =>
    \E how \in [RuleSet -> Coercions] :
      /\ RuleReports = UNION {ReportsOf(e, how[e]) : e \in RuleSet}
      /\ HasCall("setFailed", MsgOneOrMore) <=> \E e \in RuleSet : FailsAlone(e, how[e])
      /\ HasCall("info", MsgAllValid) <=> ~\E e \in RuleSet : FailsAlone(e, how[e])

\* a failing rule first, a valid rule last
C16_Witness ==
  /\ LoopEnded /\ impl = "real" /\ Len(Declared) = 2
  /\ Declared[1].regex.kind = "string" /\ Declared[2].regex.kind = "string"
  /\ ~EnvMissing(Declared[1].name) /\ ~EnvMissing(Declared[2].name)
  /\ ~Passed(Declared[1].name) /\ Passed(Declared[2].name)
  /\ HasCall("setFailed", MsgOneOrMore)

\* The info lines that carry a validation message about the name
ValidationInfos(name) ==
  {i \in DOMAIN calls :
     /\ calls[i].fn = "info"
     /\ Len(calls[i].msg) >= 2
     /\ calls[i].msg[1] \in {KindValid, KindNoMatch, KindError}
     /\ calls[i].msg[2] = name}

\* C17: in a run with the real validateSecret nothing is ever written to
\* the console.log installed before the run, and when the loop has ended
\* every rule with a pattern string and a non-empty environment value has
\* exactly one info line carrying a validation message, and that line is
\* the message validateSecret writes for the rule.
C17_MessagesForwardedNotPrinted ==
  impl = "real" =>
    /\ stdout = <<>>
    /\ LoopEnded =>
         \A i \in DOMAIN Declared :
           (Declared[i].regex.kind = "string" /\ ~EnvMissing(Declared[i].name)) =>
             /\ Cardinality(ValidationInfos(Declared[i].name)) = 1
             /\ \A k \in ValidationInfos(Declared[i].name) :
                  calls[k].msg = ValidationLine(Declared[i].name, env[Declared[i].name],
                                                Declared[i].regex.v)

C17_Witness ==
  /\ LoopEnded /\ impl = "real" /\ Len(Declared) = 2 /\ stdout = <<>>
  /\ \A i \in {1, 2} : Declared[i].regex.kind = "string" /\ ~EnvMissing(Declared[i].name)
  /\ HasCall("info", MsgValid(Declared[1].name))
  /\ HasCall("info", MsgNoMatch(Declared[2].name, Declared[2].regex.v))

\* The environment as far as the declared names go
DeclaredEnv ==
  [n \in {Declared[i].name : i \in DOMAIN Declared} \cap DOMAIN env |-> env[n]]

\* What one rule reports, in order, given the table entry, the value of its
\* name in the restricted environment, and how its pattern converts
RuleCalls(e, envd, coercion) ==
  IF e.name \notin DOMAIN envd \/ envd[e.name] = <<>>
  THEN <<Call("warning", MsgNotInEnv(e.name))>>
  ELSE LET text == Coerce(e.regex, coercion)
           regex == NewRegExp(text.tokens)
       IN
       IF ~text.ok THEN <<Call("error", MsgFailedFor(e.name))>>
       ELSE <<Call("debug", MsgValidating(e.name, PatternText(text.tokens))),
              Call("info", ValidationLine(e.name, envd[e.name], text.tokens))>>
            \o IF regex.ok /\ RegExpTest(regex, envd[e.name]) THEN <<>>
               ELSE <<Call("error", MsgFailedFor(e.name))>>

RECURSIVE LoopCalls(_, _, _, _)
LoopCalls(es, i, envd, how) ==
  IF i > Len(es) THEN <<>>
  ELSE RuleCalls(es[i], envd, how[i]) \o LoopCalls(es, i + 1, envd, how)

\* The host-platform messages of a run as a function of the 'secrets'
\* value and the restricted environment alone
CallsFrom(secrets, envd, how) ==
  IF Falsy(secrets)
  THEN <<Call("debug", MsgLooking), Call("setFailed", MsgMissingSection)>>
  ELSE LET es == ObjectEntries(secrets)
           loop == LoopCalls(es, 1, envd, how)
           failed == \E k \in DOMAIN loop : loop[k].fn \in {"warning", "error"}
       IN <<Call("debug", MsgLooking), Call("info", MsgFound(Len(es)))>> \o loop
          \o <<IF failed THEN Call("setFailed", MsgOneOrMore) ELSE Call("info", MsgAllValid)>>

\* C18: the messages of a finished run on a file that parses are a function
\* of the 'secrets' value and of the environment values of the names it
\* declares: neither another top-level table nor a variable of another
\* name changes the sequence.
C18_OnlySecretsAndDeclaredEnv ==
  (RunEnded /\ file.st = "ok" /\ impl = "real") =>
    \E how \in [DOMAIN Declared -> Coercions] :
      calls = CallsFrom(Secrets, DeclaredEnv, how)

\* another table holds a rule for A, and a variable no rule names is set
C18_Witness ==
  /\ RunEnded /\ file.st = "ok" /\ impl = "real"
  /\ file.doc.other.kind = "table"
  /\ Secrets.kind = "table" /\ Len(Declared) = 1 /\ Declared[1].name = "B"
  /\ DOMAIN env = {"A", "B"} /\ env["A"] # <<>> /\ env["B"] # <<>>
  /\ HasCall("info", MsgAllValid)

SetFailedCount == CountCalls("setFailed")
AllValidCount == CountCall("info", MsgAllValid)

\* C19: every invocation of run() comes to its end, no error leaves it,
\* and at the end exactly one terminal signal has been given: setFailed
\* once and no success line, or the success line once and no setFailed;
\* at no point of the run has more than one been given.
C19_EndsWithOneSignal ==
  /\ <>RunEnded
  /\ [](SetFailedCount + AllValidCount <= 1 /\ escaped = "none")
  /\ [](RunEnded => SetFailedCount + AllValidCount = 1)

\* a test double threw in the loop, and the run still ended with its one signal
C19_Witness ==
  /\ RunEnded /\ escaped = "none"
  /\ \E k \in DOMAIN vsCalls : vsCalls[k].outcome = "threw"
  /\ SetFailedCount = 1 /\ AllValidCount = 0

\* C20: when run() has returned, console.log is the function that was
\* installed before the call, also when a validateSecret call threw and
\* the per-rule handler caught it.
C20_ConsoleLogRestored == RunEnded => consoleLog = <<"original">>

EnvEmpty(name) == name \in DOMAIN env /\ env[name] = <<>>

\* C21: no call of validateSecret is ever made with an empty value. In
\* run() a rule whose variable is set to the empty string gets the warning
\* of an absent one, no validateSecret call, and the run fails; on the
\* command line an empty --value gives the usage line on stderr and exit
\* code 1 without a call, also when the pattern accepts the empty string.
C21_EmptyValueNeverValidated ==
  /\ \A k \in DOMAIN vsCalls : vsCalls[k].value # <<>>
  /\ LoopEnded =>
       \A i \in DOMAIN Declared :
         EnvEmpty(Declared[i].name) =>
           /\ CountCall("warning", MsgNotInEnv(Declared[i].name)) = 1
           /\ VsCountFor(Declared[i].name) = 0
           /\ ValidationInfos(Declared[i].name) = {}
           /\ HasCall("setFailed", MsgOneOrMore)
  /\ (pc = "exited" /\ argv[4] = <<>>) =>
       /\ stderr = <<MsgUsage>>
       /\ exitCode = 1
       /\ vsCalls = <<>>
       /\ stdout = <<>>

\* an empty --value with a pattern that accepts the empty string
C21_Witness ==
  /\ pc = "exited"
  /\ argv[2] = <<"a">> /\ argv[4] = <<>> /\ argv[6] = <<"a", "*">>
  /\ RegExpTest(NewRegExp(argv[6]), argv[4])
  /\ exitCode = 1

\* C22: with a 'secrets' table that is present and empty the run passes the
\* shape check, reports 'Found 0 secrets to validate', looks nothing up,
\* validates nothing, and ends with the success line and no setFailed.
C22_EmptyTableSucceeds ==
  (RunEnded /\ file.st = "ok" /\ Secrets = JSTable(<<>>)) =>
    /\ calls = <<Call("debug", MsgLooking), Call("info", MsgFound(0)),
                 Call("info", MsgAllValid)>>
    /\ lookups = <<>>
    /\ vsCalls = <<>>
    /\ CountCalls("setFailed") = 0
    /\ CountCalls("warning") = 0 /\ CountCalls("error") = 0
    /\ escaped = "none"

C22_Witness ==
  /\ RunEnded /\ file.st = "ok" /\ Secrets = JSTable(<<>>)
  /\ DOMAIN env = SecretNames
  /\ HasCall("info", MsgFound(0)) /\ HasCall("info", MsgAllValid)

\* The key has no value in env, or the empty one
MissingIn(key) == key \notin DOMAIN env \/ env[key] = <<>>

FortyHex(v) == Len(v) = ShaLength /\ {v[i] : i \in DOMAIN v} \subseteq HexChars

\* The keys of envChecks, by position, that the call cannot accept
Offending ==
  {i \in DOMAIN envChecks :
     \/ MissingIn(envChecks[i].key)
     \/ envChecks[i].type = "sha" /\ ~FortyHex(env[envChecks[i].key])}

FirstOffending == CHOOSE i \in Offending : \A j \in Offending : i <= j

\* C24: a call of validateEnv returns normally exactly when every key of
\* envChecks has a non-empty value in env and every key of type 'sha' has a
\* value of exactly 40 hex characters; otherwise it throws for the first
\* offending key in iteration order, 'is missing' if that key has no
\* value and 'is not a valid SHA' otherwise; a key of another type is
\* checked for presence only; env and envChecks are left as they were.
C24_ReturnsIffAllChecksPass ==
  /\ [](pc \in {"envreturned", "envthrew"} =>
          /\ pc = "envreturned" <=> Offending = {}
          /\ pc = "envreturned" => escaped = "none"
          /\ Offending # {} =>
               escaped = IF MissingIn(envChecks[FirstOffending].key)
                         THEN MsgEnvMissing(envChecks[FirstOffending].key)
                         ELSE MsgNotSha(envChecks[FirstOffending].key))
  /\ [][env' = env /\ envChecks' = envChecks]_vars

\* the first key is of another type with a value that is no SHA, the
\* second is a 'sha' key with 41 hex characters
C24_Witness ==
  /\ pc = "envthrew" /\ Len(envChecks) = 2
  /\ envChecks[1].type = "SHA" /\ envChecks[1].key \in DOMAIN env
  /\ env[envChecks[1].key] = <<"a">>
  /\ envChecks[2].type = "sha" /\ envChecks[2].key \in DOMAIN env
  /\ Len(env[envChecks[2].key]) = ShaLength + 1
  /\ escaped = MsgNotSha(envChecks[2].key)

\* C23: in the environment check no error escapes uncaught, and when the
\* program has ended exactly one of setFailed and
\* setOutput('validation-passed', true) was called.
C23_FailuresReportedNotThrown ==
  /\ escaped = "none"
  /\ pc \in {"done", "crashed"} =>
       CountCalls("setFailed") + CountCalls("setOutput") = 1

\* C25: with several invocations of run() in flight, whenever an
\* invocation has its capturing console.log installed no other invocation
\* takes a step before it is restored; no invocation ever holds a captured
\* line of another one, nothing reaches the original console.log, the line
\* of the rule just validated is in that invocation's capture, and an
\* invocation that has ended has emitted exactly the messages it emits
\* when run alone.
C25_InterceptionAtomic ==
  /\ stdout = <<>>
  /\ \A p \in DOMAIN runs :
       /\ \A k \in DOMAIN runs[p].out : runs[p].out[k].from = p
       /\ runs[p].pc \in {"installed", "validated"} =>
            /\ running = p
            /\ consoleLog = ConcCapture(p, runs[p].idx)
       /\ runs[p].pc = "validated" =>
            /\ Len(runs[p].out) = 1
            /\ runs[p].out[1].line =
                 ValidationLine(Declared[runs[p].idx].name,
                                env[Declared[runs[p].idx].name],
                                Declared[runs[p].idx].regex.v)
       /\ runs[p].pc \in {"start", "reading", "loop", "done"} /\ running # p =>
            consoleLog # ConcCapture(p, runs[p].idx)
       /\ runs[p].pc = "done" =>
            runs[p].calls = CallsFrom(Secrets, DeclaredEnv, [i \in DOMAIN Declared |-> "string"])

\* one invocation has a validation line in its capture while the other is
\* suspended at the await
C25_Witness ==
  /\ DOMAIN runs = Invocations
  /\ runs["r2"].pc = "validated" /\ Len(runs["r2"].out) = 1
  /\ runs["r1"].pc = "reading"
  /\ consoleLog = ConcCapture("r2", runs["r2"].idx)

====
